---- MODULE Spec2Model ----
(***************************************************************************)
(* Header verification of the Ethash engine (src/src/ethash_wrapper.rs):   *)
(* seal parsing, the three verification stages, the difficulty            *)
(* recalculation of all protocol eras and the ECIP-1017 reward schedule.   *)
(*                                                                         *)
(* Machine integers keep their width.  u64 and U256 are modelled as        *)
(* unsigned integers of U64Bits and U256Bits bits: the widths are scaled   *)
(* down so that the values stay inside the model checker's integers, the   *)
(* arithmetic (checked, wrapping, saturating, panicking) is the code's.    *)
(***************************************************************************)
EXTENDS Integers, Sequences, FiniteSets, TLC

(***************************************************************************)
(* Widths and program constants                                            *)
(***************************************************************************)
U64Bits == 23

U256Bits == 20

U64Max == 2^U64Bits - 1

U256Max == 2^U256Bits - 1

EXP_DIFF_PERIOD == 100000

\* the seal of this engine has two fields
SEAL_ARITY == 2

\* byte lengths of the payloads of an H256 and of an H64
H256_LEN == 32

H64_LEN == 8

\* keccak of the RLP of the empty list, as an abstract hash value
KECCAK_EMPTY_LIST_RLP == 0

Max(a, b) == IF a >= b THEN a ELSE b

Min(a, b) == IF a <= b THEN a ELSE b

(***************************************************************************)
(* Outcome of an arithmetic expression: a value, or a panic of the thread. *)
(***************************************************************************)
Val(v) == [trap |-> FALSE, why |-> "none", v |-> v]

Panic(why) == [trap |-> TRUE, why |-> why, v |-> 0]

\* u64 `a + b`: panics when overflow checks are compiled in (debug profile),
\* wraps around otherwise (release profile)
AddU64(oc, a, b) ==
    IF a + b > U64Max
    THEN IF oc THEN Panic("attempt to add with overflow")
               ELSE Val((a + b) % (U64Max + 1))
    ELSE Val(a + b)

\* u64 / usize `a - b`: panics with overflow checks, wraps around otherwise
SubU64(oc, a, b) ==
    IF a < b
    THEN IF oc THEN Panic("attempt to subtract with overflow")
               ELSE Val((a - b) % (U64Max + 1))
    ELSE Val(a - b)

\* u64 `a / b`: division by zero panics in every profile
DivU64(a, b) ==
    IF b = 0 THEN Panic("attempt to divide by zero") ELSE Val(a \div b)

SaturatingSubU64(a, b) == IF a < b THEN 0 ELSE a - b

\* U256 `a + b`, `a - b`, `a * b`: the big-integer type panics on overflow in
\* every profile
AddU256(a, b) ==
    IF a + b > U256Max THEN Panic("arithmetic operation overflow") ELSE Val(a + b)

SubU256(a, b) ==
    IF a < b THEN Panic("arithmetic operation overflow") ELSE Val(a - b)

MulU256(a, b) ==
    IF b # 0 /\ a > U256Max \div b
    THEN Panic("arithmetic operation overflow")
    ELSE Val(a * b)

DivU256(a, b) ==
    IF b = 0 THEN Panic("division by zero") ELSE Val(a \div b)

SaturatingSubU256(a, b) == IF a < b THEN 0 ELSE a - b

\* U256::from(1) << shift: bits shifted out of the word are lost, no panic
OneShlU256(shift) == IF shift < U256Bits THEN 2^shift ELSE 0

(***************************************************************************)
(* calculate_difficulty                                                    *)
(***************************************************************************)
\* lines 255-260: the bound divisor in force at a block number
BoundDivisor(p, number) ==
    IF number >= p.difficulty_hardfork_transition
    THEN p.difficulty_hardfork_bound_divisor
    ELSE p.difficulty_bound_divisor

\* lines 262-267: the duration limit in force at a block number
DurationLimit(p, number) ==
    IF number >= p.expip2_transition
    THEN p.expip2_duration_limit
    ELSE p.duration_limit

\* the two branches of the pre-Homestead target swapped
FrontierTarget_Swapped(p, oc, header, parent) ==
    LET divisor == BoundDivisor(p, header.number)
        limit   == AddU64(oc, parent.timestamp, DurationLimit(p, header.number))
        step    == DivU256(parent.difficulty, divisor)
    IN  IF limit.trap THEN limit
        ELSE IF step.trap THEN step
        ELSE IF header.timestamp >= limit.v
             THEN AddU256(parent.difficulty, step.v)
             ELSE SubU256(parent.difficulty, step.v)

\* lines 272-276: the pre-Homestead target
FrontierTarget(p, oc, header, parent) ==
    LET divisor == BoundDivisor(p, header.number)
        limit   == AddU64(oc, parent.timestamp, DurationLimit(p, header.number))
        step    == DivU256(parent.difficulty, divisor)
    IN  IF limit.trap THEN limit
        ELSE IF step.trap THEN step
        ELSE IF header.timestamp >= limit.v
             THEN SubU256(parent.difficulty, step.v)
             ELSE AddU256(parent.difficulty, step.v)

\* the uncles of the parent not looked at
IncrementRule_UncleBlind(p, header, parent) ==
    IF header.number < p.eip100b_transition
    THEN <<p.difficulty_increment_divisor, 1>>
    ELSE <<p.metropolis_difficulty_increment_divisor, 1>>

\* lines 280-286: (increment_divisor, threshold)
IncrementRule(p, header, parent) ==
    IF header.number < p.eip100b_transition
    THEN <<p.difficulty_increment_divisor, 1>>
    ELSE IF parent.uncles_hash # KECCAK_EMPTY_LIST_RLP
         THEN <<p.metropolis_difficulty_increment_divisor, 2>>
         ELSE <<p.metropolis_difficulty_increment_divisor, 1>>

\* lines 280-296: the post-Homestead target
HomesteadTarget(p, oc, header, parent) ==
    LET divisor           == BoundDivisor(p, header.number)
        increment_divisor == IncrementRule(p, header, parent)[1]
        threshold         == IncrementRule(p, header, parent)[2]
        elapsed  == SubU64(oc, header.timestamp, parent.timestamp)
        diff_inc == DivU64(elapsed.v, increment_divisor)
        step     == DivU256(parent.difficulty, divisor)
    IN  IF elapsed.trap THEN elapsed
        ELSE IF diff_inc.trap THEN diff_inc
        ELSE IF step.trap THEN step
        ELSE IF diff_inc.v <= threshold
             THEN LET prod == MulU256(step.v, threshold - diff_inc.v)
                  IN  IF prod.trap THEN prod
                      ELSE AddU256(parent.difficulty, prod.v)
             ELSE LET multiplier == Min(diff_inc.v - threshold, 99)
                      prod == MulU256(step.v, multiplier)
                  IN  IF prod.trap THEN prod
                      ELSE Val(SaturatingSubU256(parent.difficulty, prod.v))

\* lines 271-297: the target before the clamp to the minimum difficulty
PreClampTarget(p, oc, header, parent) ==
    IF header.number < p.homestead_transition
    THEN FrontierTarget(p, oc, header, parent)
    ELSE HomesteadTarget(p, oc, header, parent)

\* lines 303-307: the block number less the delay of every entry of the
\* bomb-delay table (ascending by block) whose block the original number reached
\* each entry tested against the number the earlier entries have lowered
RECURSIVE BombDelayed_Running(_, _, _)
BombDelayed_Running(delays, original_number, number) ==
    IF delays = <<>> THEN number
    ELSE LET block == Head(delays)[1]
             delay == Head(delays)[2]
         IN  BombDelayed_Running(Tail(delays), original_number,
                                 IF number >= block
                                 THEN SaturatingSubU64(number, delay)
                                 ELSE number)

RECURSIVE BombDelayed(_, _, _)
BombDelayed(delays, original_number, number) ==
    IF delays = <<>> THEN number
    ELSE LET block == Head(delays)[1]
             delay == Head(delays)[2]
         IN  BombDelayed(Tail(delays), original_number,
                         IF original_number >= block
                         THEN SaturatingSubU64(number, delay)
                         ELSE number)

\* line 310, 314, 318: target = max(min_difficulty, target + (1 << exponent))
AddBomb(min_difficulty, target, exponent) ==
    LET sum == AddU256(target, OneShlU256(exponent))
    IN  IF sum.trap THEN sum ELSE Val(Max(min_difficulty, sum.v))

\* lines 299-320: the difficulty bomb on top of the clamped target
DifficultyBomb(p, oc, header, parent, target) ==
    LET min_difficulty == p.minimum_difficulty
    IN
    IF header.number < p.bomb_defuse_transition
    THEN IF header.number < p.ecip1010_pause_transition
         THEN LET number == BombDelayed(p.difficulty_bomb_delays,
                                        header.number, header.number)
                  period == number \div EXP_DIFF_PERIOD
              IN  IF period > 1
                  THEN AddBomb(min_difficulty, target, period - 2)
                  ELSE Val(target)
         ELSE IF header.number < p.ecip1010_continue_transition
         THEN LET fixed_difficulty ==
                      SubU64(oc, p.ecip1010_pause_transition \div EXP_DIFF_PERIOD, 2)
              IN  IF fixed_difficulty.trap THEN fixed_difficulty
                  ELSE AddBomb(min_difficulty, target, fixed_difficulty.v)
         ELSE LET next   == AddU64(oc, parent.number, 1)
                  period == next.v \div EXP_DIFF_PERIOD
                  span   == SubU64(oc, p.ecip1010_continue_transition,
                                       p.ecip1010_pause_transition)
                  delay  == span.v \div EXP_DIFF_PERIOD
                  e1     == SubU64(oc, period, delay)
                  e2     == SubU64(oc, e1.v, 2)
              IN  IF next.trap THEN next
                  ELSE IF span.trap THEN span
                  ELSE IF e1.trap THEN e1
                  ELSE IF e2.trap THEN e2
                  ELSE AddBomb(min_difficulty, target, e2.v)
    ELSE Val(target)

\* the clamp left out
ClampToMinimum_Skipped(min_difficulty, target) == target

\* line 298: target = max(min_difficulty, target)
ClampToMinimum(min_difficulty, target) == Max(min_difficulty, target)

\* lines 245-322
CalculateDifficulty(p, oc, header, parent) ==
    IF header.number = 0
    THEN Panic("Can't calculate genesis block difficulty")
    ELSE LET target == PreClampTarget(p, oc, header, parent)
         IN  IF target.trap THEN target
             ELSE DifficultyBomb(p, oc, header, parent,
                                 ClampToMinimum(p.minimum_difficulty, target.v))

(***************************************************************************)
(* Seal::parse_seal                                                        *)
(*                                                                         *)
(* A seal field is an RLP item: [is_data, len, val] says whether the item  *)
(* is a byte string (not a list), how many payload bytes it has and which  *)
(* value the payload denotes.                                              *)
(***************************************************************************)
Ok == [tag |-> "Ok"]

DecoderError(why) == [tag |-> "Decoder", why |-> why]

\* lines 57-58: Rlp::new(item).as_val::<H256 / H64>(): a byte string of exactly
\* `size` payload bytes decodes to its value
AsVal(item, size) ==
    IF ~item.is_data THEN DecoderError("RlpExpectedToBeData")
    ELSE IF item.len < size THEN DecoderError("RlpIsTooShort")
    ELSE IF item.len > size THEN DecoderError("RlpIsTooBig")
    ELSE [tag |-> "Ok", val |-> item.val]

\* only a seal that is too short refused
ParseSeal_AtLeastTwo(seal) ==
    IF Len(seal) < SEAL_ARITY
    THEN [ret |-> [tag |-> "InvalidSealArity", expected |-> SEAL_ARITY, found |-> Len(seal)],
          decoded |-> 0]
    ELSE LET mix_hash == AsVal(seal[1], H256_LEN)
             nonce    == AsVal(seal[2], H64_LEN)
         IN  IF mix_hash.tag # "Ok" THEN [ret |-> mix_hash, decoded |-> 1]
             ELSE IF nonce.tag # "Ok" THEN [ret |-> nonce, decoded |-> 2]
             ELSE [ret |-> [tag |-> "Ok", mix_hash |-> mix_hash.val, nonce |-> nonce.val],
                   decoded |-> 2]

\* lines 47-65; `decoded` counts the seal fields handed to the RLP decoder
ParseSeal(seal) ==
    IF Len(seal) # SEAL_ARITY
    THEN [ret |-> [tag |-> "InvalidSealArity", expected |-> SEAL_ARITY, found |-> Len(seal)],
          decoded |-> 0]
    ELSE LET mix_hash == AsVal(seal[1], H256_LEN)
             nonce    == AsVal(seal[2], H64_LEN)
         IN  IF mix_hash.tag # "Ok" THEN [ret |-> mix_hash, decoded |-> 1]
             ELSE IF nonce.tag # "Ok" THEN [ret |-> nonce, decoded |-> 2]
             ELSE [ret |-> [tag |-> "Ok", mix_hash |-> mix_hash.val, nonce |-> nonce.val],
                   decoded |-> 2]

(***************************************************************************)
(* The verification stages                                                 *)
(***************************************************************************)
\* lines 192, 210: ethash::boundary_to_difficulty, the difficulty a
\* proof-of-work value implies: the whole range for a boundary of 0 or 1,
\* ((1 << (bits - 1)) / boundary) << 1 otherwise
BoundaryToDifficulty(boundary) ==
    IF boundary <= 1 THEN U256Max
    ELSE ((2^(U256Bits - 1)) \div boundary) * 2

\* the minimum itself refused
DifficultyCheck_Inclusive(p, header) ==
    IF header.difficulty <= p.minimum_difficulty
    THEN [tag |-> "DifficultyOutOfBounds", min |-> p.minimum_difficulty,
          max |-> "None", found |-> header.difficulty]
    ELSE [tag |-> "Ok"]

\* lines 186-190: the minimum-difficulty check of verify_block_basic
DifficultyCheck(p, header) ==
    LET min_difficulty == p.minimum_difficulty
    IN  IF header.difficulty < min_difficulty
        THEN [tag |-> "DifficultyOutOfBounds", min |-> min_difficulty,
              max |-> "None", found |-> header.difficulty]
        ELSE Ok

\* lines 198-200, 222-224: the implied difficulty against the claimed one
ProofOfWorkCheck(header, difficulty) ==
    IF difficulty < header.difficulty
    THEN [tag |-> "InvalidProofOfWork", min |-> header.difficulty,
          max |-> "None", found |-> difficulty]
    ELSE Ok

\* lines 219-221: the mix digest of the facility against the seal's
MixHashCheck(mix, seal) ==
    IF mix # seal.mix_hash
    THEN [tag |-> "MismatchedH256SealElement", expected |-> mix, found |-> seal.mix_hash]
    ELSE Ok

\* lines 182-203; quick_value is what quick_get_difficulty returns for the
\* header's bare hash, nonce and mix digest
VerifyBlockBasic(p, header, quick_value) ==
    LET seal == ParseSeal(header.seal).ret
    IN  IF seal.tag # "Ok" THEN seal
        ELSE IF DifficultyCheck(p, header).tag # "Ok" THEN DifficultyCheck(p, header)
        ELSE ProofOfWorkCheck(header, BoundaryToDifficulty(quick_value))

\* the proof of work compared before the digests
VerifyBlockUnordered_WorkFirst(header, light) ==
    LET seal == ParseSeal(header.seal).ret
    IN  IF seal.tag # "Ok" THEN seal
        ELSE IF ProofOfWorkCheck(header, BoundaryToDifficulty(light.value)).tag # "Ok"
             THEN ProofOfWorkCheck(header, BoundaryToDifficulty(light.value))
        ELSE MixHashCheck(light.mix_hash, seal)

\* lines 205-226; light is what compute_light returns for the header's
\* number, bare hash and nonce: [mix_hash, value]
VerifyBlockUnordered(header, light) ==
    LET seal == ParseSeal(header.seal).ret
    IN  IF seal.tag # "Ok" THEN seal
        ELSE IF MixHashCheck(light.mix_hash, seal).tag # "Ok"
             THEN MixHashCheck(light.mix_hash, seal)
        ELSE ProofOfWorkCheck(header, BoundaryToDifficulty(light.value))

\* the genesis guard left out
NumberCheck_Skipped(header) == [tag |-> "Ok"]

\* lines 230-232: the genesis guard of verify_block_family
NumberCheck(header) ==
    IF header.number = 0
    THEN [tag |-> "RidiculousNumber", min |-> 1, max |-> "None", found |-> header.number]
    ELSE Ok

\* expected and found exchanged in the error
ExpectedDifficultyCheck_Swapped(header, expected_difficulty) ==
    IF expected_difficulty.trap
    THEN [tag |-> "Panic", why |-> expected_difficulty.why]
    ELSE IF header.difficulty # expected_difficulty.v
    THEN [tag |-> "InvalidDifficulty", expected |-> header.difficulty,
          found |-> expected_difficulty.v]
    ELSE [tag |-> "Ok"]

\* lines 236-238: the claimed difficulty against the expected one; a panic of
\* calculate_difficulty unwinds through the caller
ExpectedDifficultyCheck(header, expected_difficulty) ==
    IF expected_difficulty.trap
    THEN [tag |-> "Panic", why |-> expected_difficulty.why]
    ELSE IF header.difficulty # expected_difficulty.v
    THEN [tag |-> "InvalidDifficulty", expected |-> expected_difficulty.v,
          found |-> header.difficulty]
    ELSE Ok

\* the claimed difficulty not looked at
VerifyBlockFamily_NoDifficulty(p, oc, header, parent) == NumberCheck(header)

\* lines 228-241
VerifyBlockFamily(p, oc, header, parent) ==
    IF NumberCheck(header).tag # "Ok" THEN NumberCheck(header)
    ELSE ExpectedDifficultyCheck(header, CalculateDifficulty(p, oc, header, parent))

(***************************************************************************)
(* ecip1017_eras_block_reward                                              *)
(***************************************************************************)
\* a block on an era boundary counted in the new era
Ecip1017Eras_NoBoundaryRule(era_rounds, block_number) ==
    IF era_rounds = 0 THEN Panic("attempt to calculate the remainder with a divisor of zero")
    ELSE Val(block_number \div era_rounds)

\* lines 326-330
Ecip1017Eras(era_rounds, block_number) ==
    IF era_rounds = 0 THEN Panic("attempt to calculate the remainder with a divisor of zero")
    ELSE IF block_number # 0 /\ block_number % era_rounds = 0
    THEN Val(block_number \div era_rounds - 1)
    ELSE Val(block_number \div era_rounds)

\* lines 332-335: the loop body, `left` more times, on (reward, divi)
RECURSIVE RewardLoop(_, _, _)
RewardLoop(left, reward, divi) ==
    IF left = 0 THEN Val(<<reward, divi>>)
    ELSE LET r == MulU256(reward, 4)
             d == MulU256(divi, 5)
         IN  IF r.trap THEN r
             ELSE IF d.trap THEN d
             ELSE RewardLoop(left - 1, r.v, d.v)

\* lines 325-338: (eras, reward), or a panic
Ecip1017ErasBlockReward(era_rounds, reward, block_number) ==
    LET eras == Ecip1017Eras(era_rounds, block_number)
    IN  IF eras.trap THEN [tag |-> "Panic", why |-> eras.why]
        ELSE LET loop == RewardLoop(eras.v, reward, 1)
             IN  IF loop.trap THEN [tag |-> "Panic", why |-> loop.why]
                 ELSE [tag |-> "Ok", eras |-> eras.v,
                       reward |-> loop.v[1] \div loop.v[2]]

(***************************************************************************)
(* Inputs: consensus parameters, headers, seals, answers of the external   *)
(* proof-of-work facility                                                  *)
(***************************************************************************)
\* the bomb settings: <<bomb_defuse_transition, ecip1010_pause_transition,
\* ecip1010_continue_transition, difficulty_bomb_delays>>
BombSettings ==
    { <<U64Max, U64Max, U64Max, <<>> >>,
      <<U64Max, U64Max, U64Max, << <<200000, 100000>>, <<300000, 150000>> >> >>,
      <<U64Max, U64Max, U64Max, << <<100000, 500000>>, <<300000, 100000>> >> >>,
      <<300000, U64Max, U64Max, <<>> >>,
      <<U64Max, 300000, 500000, <<>> >>,
      <<U64Max, 100000, 2000000, <<>> >> }

HomesteadTransitions == {0, 1150000, U64Max}

MinimumDifficulties == {16, 131072}

ParamSets ==
    { [ minimum_difficulty                      |-> m,
        difficulty_bound_divisor                |-> 2048,
        difficulty_increment_divisor            |-> 10,
        metropolis_difficulty_increment_divisor |-> 9,
        duration_limit                          |-> 13,
        homestead_transition                    |-> h,
        difficulty_hardfork_transition          |-> 350000,
        difficulty_hardfork_bound_divisor       |-> 16,
        bomb_defuse_transition                  |-> b[1],
        eip100b_transition                      |-> 250000,
        ecip1010_pause_transition               |-> b[2],
        ecip1010_continue_transition            |-> b[3],
        expip2_transition                       |-> 250000,
        expip2_duration_limit                   |-> 30,
        difficulty_bomb_delays                  |-> b[4] ]
      : m \in MinimumDifficulties, h \in HomesteadTransitions, b \in BombSettings }

Numbers == {0, 1, 150000, 250000, 350000, 2300000, U64Max}

\* the parent's number: the predecessor, and where the code reads it (the
\* resumed bomb) any other number
ParentNumbers(number) ==
    {SaturatingSubU64(number, 1)} \cup (IF number >= 2000000 THEN {0, U64Max} ELSE {})

ParentTimestamps == {1000, U64Max - 5}

\* header timestamps around a parent timestamp: before it, the duration
\* limits and their predecessors, far after it, and small values
Timestamps(parent_timestamp) ==
    { t \in { parent_timestamp + d : d \in {0 - 1, 0, 12, 13, 29, 30, 1000} }
            \cup {0, 7, U64Max} : t >= 0 /\ t <= U64Max }

Difficulties == {100000, 131072, 1000000, U256Max}

UnclesHashes == {KECCAK_EMPTY_LIST_RLP, 1}

\* RLP items of a seal: well-formed digests and nonce, a short string, a list
MixItem(val) == [is_data |-> TRUE, len |-> H256_LEN, val |-> val]

NonceItem == [is_data |-> TRUE, len |-> H64_LEN, val |-> 7]

ShortItem == [is_data |-> TRUE, len |-> H256_LEN - 1, val |-> 1]

ListItem == [is_data |-> FALSE, len |-> H256_LEN, val |-> 1]

Seals ==
    { <<>>, <<MixItem(1)>>, <<MixItem(1), NonceItem, NonceItem>>,
      <<ShortItem, ListItem, NonceItem>>,
      <<MixItem(1), NonceItem>>, <<MixItem(2), NonceItem>>,
      <<ShortItem, NonceItem>>, <<NonceItem, NonceItem>>, <<MixItem(1), MixItem(1)>>,
      <<MixItem(1), ListItem>>, <<ListItem, ShortItem>> }

\* proof-of-work values (boundaries) the facility may answer
PowValues == {0, 1, 5, 8, 9}

MixHashes == {1, 2}

SealedHeaders ==
    { [number |-> 1, timestamp |-> 1013, difficulty |-> d,
       uncles_hash |-> KECCAK_EMPTY_LIST_RLP, seal |-> s]
      : d \in {131071, 131072, 200000}, s \in Seals }

Header(number, timestamp, difficulty, uncles_hash) ==
    [number |-> number, timestamp |-> timestamp, difficulty |-> difficulty,
     uncles_hash |-> uncles_hash, seal |-> <<MixItem(1), NonceItem>>]

Parents(number) ==
    { Header(n, t, d, u) : n \in ParentNumbers(number), t \in ParentTimestamps,
                           d \in Difficulties, u \in UnclesHashes }

EraRounds == {0, 1, 100000, 5000000, U64Max}

BaseRewards == {0, 1, 50, 5000, U256Max}

BlockNumbers == {0, 1, 3, 100000, 4999999, 5000000, 5000001, U64Max}

(***************************************************************************)
(* One engine, its callers                                                 *)
(***************************************************************************)
VARIABLES
    ethash_params,    \* Ethash.ethash_params, set by Ethash::new
    overflow_checks,  \* the build profile: are overflow checks compiled in
    thread,           \* each caller: the call it is in, its locals, its result
    chain             \* the headers a caller has accepted, each on top of the last

vars == <<ethash_params, overflow_checks, thread, chain>>

NThreads == 2

Threads == 1 .. NThreads

NoLocal == [tag |-> "none"]

Idle == [pc |-> "idle", op |-> "none", args |-> NoLocal, local |-> NoLocal,
         ret |-> NoLocal, overlapped |-> FALSE]

Called(op, args) ==
    [pc |-> "called", op |-> op, args |-> args, local |-> NoLocal,
     ret |-> NoLocal, overlapped |-> FALSE]

\* the places of a thread inside a call
InCall == {"called", "sealed", "bounded", "computed", "numbered", "calculated"}

\* history: has another thread been inside a call while t took a step of its own
Overlapped(t) ==
    thread[t].overlapped \/ \E u \in Threads \ {t} : thread[u].pc \in InCall

\* the result of calculate_difficulty as its caller sees it
AsResult(x) ==
    IF x.trap THEN [tag |-> "Panic", why |-> x.why] ELSE [tag |-> "Value", v |-> x.v]

\* the call of thread t ends with ret; a panic ends the thread
Return(t, ret) ==
    [thread EXCEPT ![t] = [@ EXCEPT !.pc = IF ret.tag = "Panic" THEN "panicked" ELSE "returned",
                                    !.local = NoLocal,
                                    !.ret = ret,
                                    !.overlapped = Overlapped(t)]]

\* thread t goes on to the place pc of its call, with the locals it holds there
Goto(t, pc, local) ==
    [thread EXCEPT ![t] = [@ EXCEPT !.pc = pc, !.local = local,
                                    !.overlapped = Overlapped(t)]]

\* the locals of another call of the same operation at the same place
Local_Shared(t) ==
    IF thread[1].op = thread[t].op /\ thread[1].pc = thread[t].pc
    THEN thread[1].local
    ELSE thread[t].local

\* the locals of the call of thread t: they live on the stack of the call
Local(t) == thread[t].local

\* lines 171-180: Ethash::new stores the parameters it is given
New(params) == params

\* the difficulties a header may claim, the right one among them
ClaimedDifficulties(expected) ==
    (IF expected.trap THEN {} ELSE {expected.v}) \cup {131072, 1000000}

\* one caller, one call: the engine is built and thread 1 has entered an
\* operation with its arguments, the other threads do not call
OneCall(op, args) ==
    thread = [t \in Threads |-> IF t = 1 THEN Called(op, args) ELSE Idle]

Init ==
    /\ ethash_params \in { New(p) : p \in ParamSets }
    /\ overflow_checks \in BOOLEAN
    /\ chain = <<>>
    /\ \/ \E seal \in Seals : OneCall("parse_seal", [seal |-> seal])
       \/ \E h \in SealedHeaders, q \in PowValues :
              OneCall("verify_block_basic", [header |-> h, quick_value |-> q])
       \/ \E h \in SealedHeaders, m \in MixHashes, v \in PowValues :
              OneCall("verify_block_unordered",
                      [header |-> h, light |-> [mix_hash |-> m, value |-> v]])
       \/ \E n \in Numbers : \E parent \in Parents(n) :
          \E t \in Timestamps(parent.timestamp) :
              OneCall("calculate_difficulty",
                      [header |-> Header(n, t, 131072, KECCAK_EMPTY_LIST_RLP),
                       parent |-> parent])
       \/ \E n \in Numbers : \E parent \in Parents(n) :
          \E t \in Timestamps(parent.timestamp) :
          \E d \in ClaimedDifficulties(
                       CalculateDifficulty(ethash_params, overflow_checks,
                           Header(n, t, 0, KECCAK_EMPTY_LIST_RLP), parent)) :
              OneCall("verify_block_family",
                      [header |-> Header(n, t, d, KECCAK_EMPTY_LIST_RLP),
                       parent |-> parent])
       \/ \E e \in EraRounds, r \in BaseRewards, b \in BlockNumbers :
              OneCall("ecip1017_eras_block_reward",
                      [era_rounds |-> e, reward |-> r, block_number |-> b])

Entered(t, op) == thread[t].pc = "called" /\ thread[t].op = op

\* Seal::parse_seal(seal)
CallParseSeal(t) ==
    /\ Entered(t, "parse_seal")
    /\ LET r == ParseSeal(thread[t].args.seal)
       IN  thread' = Return(t, [tag |-> r.ret.tag, seal |-> r.ret, decoded |-> r.decoded])
    /\ UNCHANGED <<ethash_params, overflow_checks, chain>>

\* self.verify_block_basic(header)
CallVerifyBlockBasic(t) ==
    /\ Entered(t, "verify_block_basic")
    /\ thread' = Return(t, VerifyBlockBasic(ethash_params, thread[t].args.header,
                                            thread[t].args.quick_value))
    /\ UNCHANGED <<ethash_params, overflow_checks, chain>>

\* self.verify_block_unordered(header)
CallVerifyBlockUnordered(t) ==
    /\ Entered(t, "verify_block_unordered")
    /\ thread' = Return(t, VerifyBlockUnordered(thread[t].args.header, thread[t].args.light))
    /\ UNCHANGED <<ethash_params, overflow_checks, chain>>

\* self.verify_block_family(header, parent)
CallVerifyBlockFamily(t) ==
    /\ Entered(t, "verify_block_family")
    /\ thread' = Return(t, VerifyBlockFamily(ethash_params, overflow_checks,
                                             thread[t].args.header, thread[t].args.parent))
    /\ UNCHANGED <<ethash_params, overflow_checks, chain>>

\* self.calculate_difficulty(header, parent)
CallCalculateDifficulty(t) ==
    /\ Entered(t, "calculate_difficulty")
    /\ thread' = Return(t, AsResult(CalculateDifficulty(ethash_params, overflow_checks,
                                        thread[t].args.header, thread[t].args.parent)))
    /\ UNCHANGED <<ethash_params, overflow_checks, chain>>

\* ecip1017_eras_block_reward(era_rounds, reward, block_number)
CallEcip1017ErasBlockReward(t) ==
    /\ Entered(t, "ecip1017_eras_block_reward")
    /\ thread' = Return(t, Ecip1017ErasBlockReward(thread[t].args.era_rounds,
                               thread[t].args.reward, thread[t].args.block_number))
    /\ UNCHANGED <<ethash_params, overflow_checks, chain>>

Next ==
    \/ \E t \in Threads : CallParseSeal(t)
    \/ \E t \in Threads : CallVerifyBlockBasic(t)
    \/ \E t \in Threads : CallVerifyBlockUnordered(t)
    \/ \E t \in Threads : CallVerifyBlockFamily(t)
    \/ \E t \in Threads : CallCalculateDifficulty(t)
    \/ \E t \in Threads : CallEcip1017ErasBlockReward(t)

Spec == Init /\ [][Next]_vars

(***************************************************************************)
(* Concurrent callers: the engine is shared (Arc<Ethash>), every thread    *)
(* calls the verification stages one after the other, and the stages run   *)
(* statement by statement so that calls interleave.                        *)
(***************************************************************************)
ConcParamSets ==
    { p \in ParamSets : /\ p.homestead_transition = 0
                        /\ p.minimum_difficulty = 131072
                        /\ p.bomb_defuse_transition = U64Max
                        /\ p.ecip1010_pause_transition = U64Max
                        /\ p.difficulty_bomb_delays = <<>> }

ConcHeader(difficulty, mix_hash) ==
    [number |-> 1, timestamp |-> 1013, difficulty |-> difficulty,
     uncles_hash |-> KECCAK_EMPTY_LIST_RLP, seal |-> <<MixItem(mix_hash), NonceItem>>]

ConcParent == Header(0, 1000, 1000000, KECCAK_EMPTY_LIST_RLP)

\* the calls a thread may make: [op, args]
ConcBasicCalls ==
    { [header |-> ConcHeader(131072, 1), quick_value |-> 8],
      [header |-> ConcHeader(131072, 1), quick_value |-> 9],
      [header |-> ConcHeader(131071, 1), quick_value |-> 9] }

ConcUnorderedCalls ==
    { [header |-> ConcHeader(131072, m), light |-> [mix_hash |-> 1, value |-> 8]]
      : m \in MixHashes }

ConcFamilyCalls ==
    { [header |-> Header(0, 1013, 131072, KECCAK_EMPTY_LIST_RLP), parent |-> ConcParent],
      [header |-> Header(1, 999, 131072, KECCAK_EMPTY_LIST_RLP), parent |-> ConcParent],
      [header |-> Header(1, 1013, 1000000, KECCAK_EMPTY_LIST_RLP), parent |-> ConcParent] }

ConcCalculateCalls ==
    { [header |-> Header(1, 1013, 131072, KECCAK_EMPTY_LIST_RLP), parent |-> ConcParent] }

InitConc ==
    /\ ethash_params \in { New(p) : p \in ConcParamSets }
    /\ overflow_checks \in BOOLEAN
    /\ thread = [t \in Threads |-> Idle]
    /\ chain = <<>>

\* a thread that is not inside a call enters one
Begin(t) ==
    /\ thread[t].pc \in {"idle", "returned"}
    /\ \/ \E args \in ConcBasicCalls :
              thread' = [thread EXCEPT ![t] = Called("verify_block_basic", args)]
       \/ \E args \in ConcUnorderedCalls :
              thread' = [thread EXCEPT ![t] = Called("verify_block_unordered", args)]
       \/ \E args \in ConcFamilyCalls :
              thread' = [thread EXCEPT ![t] = Called("verify_block_family", args)]
       \/ \E args \in ConcCalculateCalls :
              thread' = [thread EXCEPT ![t] = Called("calculate_difficulty", args)]
    /\ UNCHANGED <<ethash_params, overflow_checks, chain>>

\* lines 184, 206: let seal = Seal::parse_seal(header.seal())?
StepParseSeal(t) ==
    /\ thread[t].pc = "called"
    /\ thread[t].op \in {"verify_block_basic", "verify_block_unordered"}
    /\ LET seal == ParseSeal(thread[t].args.header.seal).ret
       IN  thread' = IF seal.tag # "Ok" THEN Return(t, seal) ELSE Goto(t, "sealed", seal)
    /\ UNCHANGED <<ethash_params, overflow_checks, chain>>

\* lines 187-190
StepBasicDifficulty(t) ==
    /\ thread[t].pc = "sealed" /\ thread[t].op = "verify_block_basic"
    /\ LET check == DifficultyCheck(ethash_params, thread[t].args.header)
       IN  thread' = IF check.tag # "Ok" THEN Return(t, check)
                     ELSE Goto(t, "bounded", Local(t))
    /\ UNCHANGED <<ethash_params, overflow_checks, chain>>

\* lines 192-202
StepBasicProofOfWork(t) ==
    /\ thread[t].pc = "bounded" /\ thread[t].op = "verify_block_basic"
    /\ thread' = Return(t, ProofOfWorkCheck(thread[t].args.header,
                               BoundaryToDifficulty(thread[t].args.quick_value)))
    /\ UNCHANGED <<ethash_params, overflow_checks, chain>>

\* lines 208-210
StepUnorderedCompute(t) ==
    /\ thread[t].pc = "sealed" /\ thread[t].op = "verify_block_unordered"
    /\ thread' = Goto(t, "computed",
                      [seal |-> Local(t), mix |-> thread[t].args.light.mix_hash,
                       difficulty |-> BoundaryToDifficulty(thread[t].args.light.value)])
    /\ UNCHANGED <<ethash_params, overflow_checks, chain>>

\* lines 219-225
StepUnorderedCheck(t) ==
    /\ thread[t].pc = "computed" /\ thread[t].op = "verify_block_unordered"
    /\ LET check == MixHashCheck(Local(t).mix, Local(t).seal)
       IN  thread' = IF check.tag # "Ok" THEN Return(t, check)
                     ELSE Return(t, ProofOfWorkCheck(thread[t].args.header,
                                                     Local(t).difficulty))
    /\ UNCHANGED <<ethash_params, overflow_checks, chain>>

\* lines 230-232
StepFamilyNumber(t) ==
    /\ thread[t].pc = "called" /\ thread[t].op = "verify_block_family"
    /\ LET check == NumberCheck(thread[t].args.header)
       IN  thread' = IF check.tag # "Ok" THEN Return(t, check)
                     ELSE Goto(t, "numbered", NoLocal)
    /\ UNCHANGED <<ethash_params, overflow_checks, chain>>

\* line 235: let expected_difficulty = self.calculate_difficulty(header, parent)
StepFamilyCalculate(t) ==
    /\ thread[t].pc = "numbered" /\ thread[t].op = "verify_block_family"
    /\ LET expected_difficulty ==
               CalculateDifficulty(ethash_params, overflow_checks,
                                   thread[t].args.header, thread[t].args.parent)
       IN  thread' = IF expected_difficulty.trap
                     THEN Return(t, AsResult(expected_difficulty))
                     ELSE Goto(t, "calculated", expected_difficulty)
    /\ UNCHANGED <<ethash_params, overflow_checks, chain>>

\* lines 236-240
StepFamilyCheck(t) ==
    /\ thread[t].pc = "calculated" /\ thread[t].op = "verify_block_family"
    /\ thread' = Return(t, ExpectedDifficultyCheck(thread[t].args.header, Local(t)))
    /\ UNCHANGED <<ethash_params, overflow_checks, chain>>

NextConc ==
    \/ \E t \in Threads : Begin(t)
    \/ \E t \in Threads : StepParseSeal(t)
    \/ \E t \in Threads : StepBasicDifficulty(t)
    \/ \E t \in Threads : StepBasicProofOfWork(t)
    \/ \E t \in Threads : StepUnorderedCompute(t)
    \/ \E t \in Threads : StepUnorderedCheck(t)
    \/ \E t \in Threads : StepFamilyNumber(t)
    \/ \E t \in Threads : StepFamilyCalculate(t)
    \/ \E t \in Threads : StepFamilyCheck(t)
    \/ \E t \in Threads : CallCalculateDifficulty(t)

SpecConc == InitConc /\ [][NextConc]_vars

(***************************************************************************)
(* A chain of headers: a caller starts from a header it trusts (the        *)
(* genesis, or a later header), puts a header on top of the chain when     *)
(* verify_block_family accepts it against the header below, and runs       *)
(* verify_block_basic on headers of the chain.                             *)
(***************************************************************************)
\* the longest chain built
MaxChain == 3

\* the headers a chain starts from: numbers just below the eras' borders,
\* with a difficulty below every minimum or an ordinary one
StartNumbers == {0, 249999, 2299999}

StartDifficulties == {10, 131072}

StartHeaders ==
    { Header(n, 1000, d, KECCAK_EMPTY_LIST_RLP) :
          n \in StartNumbers, d \in StartDifficulties }

\* the seconds between a header and the header below it; -1 is a header
\* older than its parent
Spacings == {-1, 12, 1000}

\* the headers offered on top of parent: the next number, with the expected
\* difficulty or another one
Candidates(parent) ==
    UNION { { Header(parent.number + 1, parent.timestamp + dt, d, u) :
                  d \in ClaimedDifficulties(
                           CalculateDifficulty(ethash_params, overflow_checks,
                               Header(parent.number + 1, parent.timestamp + dt, 0, u),
                               parent)) \cup {10} } :
            dt \in Spacings, u \in UnclesHashes }

InitChain ==
    /\ ethash_params \in { New(p) : p \in ParamSets }
    /\ overflow_checks \in BOOLEAN
    /\ thread = [t \in Threads |-> Idle]
    /\ \E start \in StartHeaders : chain = <<start>>

\* self.verify_block_family(header, parent) on a header offered on top of the
\* chain; the caller keeps the header when the verdict is Ok
ImportHeader ==
    /\ Len(chain) < MaxChain
    /\ thread[1].pc = "idle"
    /\ \E header \in Candidates(chain[Len(chain)]) :
           /\ VerifyBlockFamily(ethash_params, overflow_checks,
                                header, chain[Len(chain)]) = Ok
           /\ chain' = Append(chain, header)
    /\ UNCHANGED <<ethash_params, overflow_checks, thread>>

\* the caller enters verify_block_basic with the header on top of the chain
\* and a proof-of-work value for its seal
BeginBasicOnChain ==
    /\ Len(chain) >= 2
    /\ thread[1].pc = "idle"
    /\ \E q \in {0, 9} :
           thread' = [thread EXCEPT ![1] =
                         Called("verify_block_basic",
                                [header |-> chain[Len(chain)], quick_value |-> q])]
    /\ UNCHANGED <<ethash_params, overflow_checks, chain>>

NextChain ==
    \/ ImportHeader
    \/ BeginBasicOnChain
    \/ \E t \in Threads : CallVerifyBlockBasic(t)

SpecChain == InitChain /\ [][NextChain]_vars

(***************************************************************************)
(* Properties                                                              *)
(***************************************************************************)
\* thread t has left operation op, with a result or by a panic
Finished(t, op) == thread[t].pc \in {"returned", "panicked"} /\ thread[t].op = op

\* C1: every value calculate_difficulty returns for a header numbered 1 or
\* more is at least the minimum difficulty, whatever the era, the bomb
\* branch, the parent and the parameters.
C1_DifficultyAtLeastMinimum ==
    \A t \in Threads :
        (/\ Finished(t, "calculate_difficulty")
         /\ thread[t].args.header.number >= 1
         /\ thread[t].ret.tag = "Value")
        => thread[t].ret.v >= ethash_params.minimum_difficulty

\* a call whose target before the clamp is below the minimum has returned
C1_Witness ==
    \E t \in Threads :
        /\ Finished(t, "calculate_difficulty")
        /\ thread[t].args.header.number >= 1
        /\ thread[t].ret.tag = "Value"
        /\ LET pre == PreClampTarget(ethash_params, overflow_checks,
                                     thread[t].args.header, thread[t].args.parent)
           IN  ~pre.trap /\ pre.v < ethash_params.minimum_difficulty

\* C2: for a header numbered 1 or more, whenever calculate_difficulty yields
\* a difficulty, verify_block_family succeeds exactly when the header claims
\* that difficulty and otherwise returns InvalidDifficulty with expected =
\* the computed and found = the claimed difficulty.
C2_FamilyComparesDifficulty ==
    \A t \in Threads :
        (Finished(t, "verify_block_family") /\ thread[t].args.header.number >= 1)
        => LET header   == thread[t].args.header
               computed == CalculateDifficulty(ethash_params, overflow_checks,
                                               header, thread[t].args.parent)
           IN  ~computed.trap =>
                 /\ (thread[t].ret = Ok) <=> (header.difficulty = computed.v)
                 /\ header.difficulty # computed.v =>
                        thread[t].ret = [tag |-> "InvalidDifficulty",
                                         expected |-> computed.v,
                                         found |-> header.difficulty]

\* a header that claims the computed difficulty has been accepted
C2_Witness ==
    \E t \in Threads :
        /\ Finished(t, "verify_block_family")
        /\ thread[t].args.header.number >= 1
        /\ thread[t].ret = Ok
        /\ thread[t].args.header.difficulty # ethash_params.minimum_difficulty

\* C3: verify_block_family on a header numbered 0 returns
\* RidiculousNumber{min = 1, max = none, found = 0}, for every parent and
\* claimed difficulty, and so never ends in the genesis panic of
\* calculate_difficulty.
C3_GenesisIsRidiculous ==
    \A t \in Threads :
        (Finished(t, "verify_block_family") /\ thread[t].args.header.number = 0)
        => /\ thread[t].pc = "returned"
           /\ thread[t].ret = [tag |-> "RidiculousNumber", min |-> 1,
                               max |-> "None", found |-> 0]

\* a family check of a header numbered 0 has ended, its parent far away
C3_Witness ==
    \E t \in Threads :
        /\ Finished(t, "verify_block_family")
        /\ thread[t].args.header.number = 0
        /\ thread[t].args.header.difficulty = 1000000
        /\ thread[t].args.parent.difficulty = U256Max

NonZeroDivisors(p) ==
    /\ p.difficulty_bound_divisor # 0
    /\ p.difficulty_hardfork_bound_divisor # 0
    /\ p.difficulty_increment_divisor # 0
    /\ p.metropolis_difficulty_increment_divisor # 0

\* C4: with non-zero divisors, verify_block_family and calculate_difficulty
\* on a header numbered 1 or more always return (success or one error value)
\* and never panic on an arithmetic underflow or overflow.
C4_NeverPanics ==
    \A t \in Threads :
        (/\ \/ Finished(t, "verify_block_family")
            \/ Finished(t, "calculate_difficulty")
         /\ thread[t].args.header.number >= 1
         /\ NonZeroDivisors(ethash_params))
        => thread[t].pc = "returned" /\ thread[t].ret.tag # "Panic"

\* C5: parse_seal on a seal whose length is not 2 fails with
\* InvalidSealArity{expected = 2, found = length} and hands no field to the
\* decoder; on two fields that are a 32-byte and an 8-byte string it returns
\* the seal of exactly these two values.
C5_ParseSealArity ==
    \A t \in Threads :
        Finished(t, "parse_seal")
        => LET seal == thread[t].args.seal
           IN  /\ Len(seal) # 2 =>
                     /\ thread[t].ret.seal = [tag |-> "InvalidSealArity",
                                              expected |-> 2, found |-> Len(seal)]
                     /\ thread[t].ret.decoded = 0
               /\ (/\ Len(seal) = 2
                   /\ seal[1].is_data /\ seal[1].len = 32
                   /\ seal[2].is_data /\ seal[2].len = 8) =>
                     thread[t].ret.seal = [tag |-> "Ok", mix_hash |-> seal[1].val,
                                           nonce |-> seal[2].val]

\* three fields, none of them a digest, have been refused for their number
C5_Witness ==
    \E t \in Threads :
        /\ Finished(t, "parse_seal")
        /\ Len(thread[t].args.seal) = 3
        /\ ~thread[t].args.seal[2].is_data
        /\ thread[t].ret.tag = "InvalidSealArity"

WellFormedSeal(seal) ==
    /\ Len(seal) = 2
    /\ seal[1].is_data /\ seal[1].len = H256_LEN
    /\ seal[2].is_data /\ seal[2].len = H64_LEN

\* C6: verify_block_unordered on a header with a well-formed seal: a digest
\* of the facility other than the seal's gives MismatchedH256SealElement
\* {expected = returned, found = claimed}, also when the proof of work is too
\* weak; equal digests never give that error, and the call succeeds exactly
\* when the implied difficulty is at least the claimed one.
C6_MixHashFirst ==
    \A t \in Threads :
        (Finished(t, "verify_block_unordered")
         /\ WellFormedSeal(thread[t].args.header.seal))
        => LET header  == thread[t].args.header
               light   == thread[t].args.light
               claimed == header.seal[1].val
           IN  /\ light.mix_hash # claimed =>
                     thread[t].ret = [tag |-> "MismatchedH256SealElement",
                                      expected |-> light.mix_hash, found |-> claimed]
               /\ light.mix_hash = claimed =>
                     /\ thread[t].ret.tag # "MismatchedH256SealElement"
                     /\ (thread[t].ret = Ok)
                        <=> (BoundaryToDifficulty(light.value) >= header.difficulty)

\* a wrong digest has been reported although the proof of work is too weak
C6_Witness ==
    \E t \in Threads :
        /\ Finished(t, "verify_block_unordered")
        /\ WellFormedSeal(thread[t].args.header.seal)
        /\ thread[t].args.light.mix_hash # thread[t].args.header.seal[1].val
        /\ BoundaryToDifficulty(thread[t].args.light.value)
               < thread[t].args.header.difficulty
        /\ thread[t].ret.tag = "MismatchedH256SealElement"

\* C7: verify_block_basic reports the first failing check of seal parse,
\* minimum difficulty, quick proof of work: a seal error before all; with a
\* valid seal a difficulty below the minimum gives DifficultyOutOfBounds
\* {min = minimum, found = claimed} whatever the quick value, a difficulty
\* equal to the minimum does not; then an implied difficulty below the
\* claimed one gives InvalidProofOfWork{min = claimed, found = implied};
\* success exactly when all three pass.
C7_BasicCheckOrder ==
    \A t \in Threads :
        Finished(t, "verify_block_basic")
        => LET header  == thread[t].args.header
               implied == BoundaryToDifficulty(thread[t].args.quick_value)
               minimum == ethash_params.minimum_difficulty
               sealed  == WellFormedSeal(header.seal)
               ret     == thread[t].ret
           IN  /\ ~sealed => ret.tag \in {"InvalidSealArity", "Decoder"}
               /\ (sealed /\ header.difficulty < minimum) =>
                     ret = [tag |-> "DifficultyOutOfBounds", min |-> minimum,
                            max |-> "None", found |-> header.difficulty]
               /\ (sealed /\ header.difficulty >= minimum) =>
                     ret.tag # "DifficultyOutOfBounds"
               /\ (sealed /\ header.difficulty >= minimum /\ implied < header.difficulty) =>
                     ret = [tag |-> "InvalidProofOfWork", min |-> header.difficulty,
                            max |-> "None", found |-> implied]
               /\ (ret = Ok) <=> (/\ sealed
                                  /\ header.difficulty >= minimum
                                  /\ implied >= header.difficulty)

\* a difficulty below the minimum has been reported although the quick
\* proof of work is too weak as well
C7_Witness ==
    \E t \in Threads :
        /\ Finished(t, "verify_block_basic")
        /\ WellFormedSeal(thread[t].args.header.seal)
        /\ thread[t].args.header.difficulty < ethash_params.minimum_difficulty
        /\ BoundaryToDifficulty(thread[t].args.quick_value)
               < thread[t].args.header.difficulty
        /\ thread[t].ret.tag = "DifficultyOutOfBounds"

\* C8: before Homestead, with T the parent's timestamp and D the duration
\* limit the EXPIP2 rule selects, a header with timestamp >= T + D gets the
\* target parent.difficulty - parent.difficulty / divisor before the clamp,
\* and a header with timestamp <= T + D - 1 gets parent.difficulty +
\* parent.difficulty / divisor.
C8_FrontierBoundary ==
    \A t \in Threads :
        (/\ Finished(t, "calculate_difficulty")
         /\ thread[t].args.header.number >= 1
         /\ thread[t].args.header.number < ethash_params.homestead_transition)
        => LET header == thread[t].args.header
               parent == thread[t].args.parent
               D      == IF header.number >= ethash_params.expip2_transition
                         THEN ethash_params.expip2_duration_limit
                         ELSE ethash_params.duration_limit
               step   == parent.difficulty \div BoundDivisor(ethash_params, header.number)
               pre    == PreClampTarget(ethash_params, overflow_checks, header, parent)
           IN  ~pre.trap =>
                 /\ header.timestamp >= parent.timestamp + D =>
                        pre.v = parent.difficulty - step
                 /\ header.timestamp <= parent.timestamp + D - 1 =>
                        pre.v = parent.difficulty + step

\* C9: ecip1017_eras_block_reward returns era = block_number / era_rounds - 1
\* for a non-zero multiple of era_rounds and block_number / era_rounds
\* otherwise, and reward = floor(base_reward * 4^era / 5^era); block 5,000,000
\* with 5,000,000 rounds is era 0 with the full reward, block 5,000,001 era 1
\* with floor(base_reward * 4 / 5).
C9_RewardEra ==
    \A t \in Threads :
        (Finished(t, "ecip1017_eras_block_reward") /\ thread[t].ret.tag = "Ok")
        => LET rounds == thread[t].args.era_rounds
               base   == thread[t].args.reward
               block  == thread[t].args.block_number
               era    == IF block # 0 /\ block % rounds = 0
                         THEN block \div rounds - 1
                         ELSE block \div rounds
           IN  /\ thread[t].ret.eras = era
               /\ thread[t].ret.reward = (base * 4^era) \div (5^era)
               /\ (rounds = 5000000 /\ block = 5000000) =>
                      thread[t].ret.eras = 0 /\ thread[t].ret.reward = base
               /\ (rounds = 5000000 /\ block = 5000001) =>
                      thread[t].ret.eras = 1 /\ thread[t].ret.reward = (base * 4) \div 5

\* the block on the first era boundary has been paid the full reward
C9_Witness ==
    \E t \in Threads :
        /\ Finished(t, "ecip1017_eras_block_reward")
        /\ thread[t].args.era_rounds = 5000000
        /\ thread[t].args.block_number = 5000000
        /\ thread[t].args.reward = 5000
        /\ thread[t].ret = [tag |-> "Ok", eras |-> 0, reward |-> 5000]

\* the verdict of a call run alone on the engine
Alone(op, args) ==
    IF op = "verify_block_basic"
    THEN VerifyBlockBasic(ethash_params, args.header, args.quick_value)
    ELSE IF op = "verify_block_unordered"
    THEN VerifyBlockUnordered(args.header, args.light)
    ELSE IF op = "verify_block_family"
    THEN VerifyBlockFamily(ethash_params, overflow_checks, args.header, args.parent)
    ELSE AsResult(CalculateDifficulty(ethash_params, overflow_checks,
                                      args.header, args.parent))

VerdictAlone ==
    \A t \in Threads :
        thread[t].pc \in {"returned", "panicked"} => thread[t].ret = Alone(thread[t].op, thread[t].args)

\* C10: no sequence of verify_block_basic, verify_block_unordered,
\* verify_block_family and calculate_difficulty calls changes the consensus
\* parameters of the engine, and however the calls of concurrent threads
\* interleave, each call ends with the verdict it has when run alone on the
\* same arguments.
C10_EngineImmutable ==
    /\ [][ethash_params' = ethash_params]_vars
    /\ []VerdictAlone

\* two calls of verify_block_unordered on headers with different seals have
\* run while the other thread was inside a call, one accepted, one refused
C10_Witness ==
    \E t, u \in Threads :
        /\ t # u
        /\ Finished(t, "verify_block_unordered") /\ thread[t].overlapped
        /\ Finished(u, "verify_block_unordered") /\ thread[u].overlapped
        /\ thread[t].args.header.seal # thread[u].args.header.seal
        /\ thread[t].ret = Ok
        /\ thread[u].ret.tag = "MismatchedH256SealElement"

\* a call of calculate_difficulty after Homestead, on a header not older than
\* its parent, has returned
HomesteadCall(t) ==
    /\ Finished(t, "calculate_difficulty")
    /\ thread[t].args.header.number >= 1
    /\ thread[t].args.header.number >= ethash_params.homestead_transition
    /\ thread[t].args.header.timestamp >= thread[t].args.parent.timestamp

\* C11: after Homestead, for a header not older than its parent, the target
\* before the clamp is the reference formula: (increment divisor, threshold)
\* is (legacy, 1) before EIP100b, (Metropolis, 2) from EIP100b on for a parent
\* with uncles, (Metropolis, 1) otherwise; diff_inc = (header.timestamp -
\* parent.timestamp) / increment divisor; for diff_inc <= threshold the target
\* is parent.difficulty + parent.difficulty / divisor * (threshold - diff_inc),
\* else parent.difficulty - parent.difficulty / divisor * min(diff_inc -
\* threshold, 99), not below zero.
C11_HomesteadFormula ==
    \A t \in Threads :
        HomesteadCall(t)
        => LET header == thread[t].args.header
               parent == thread[t].args.parent
               eip100b == header.number >= ethash_params.eip100b_transition
               uncled  == parent.uncles_hash # KECCAK_EMPTY_LIST_RLP
               increment_divisor ==
                   IF eip100b THEN ethash_params.metropolis_difficulty_increment_divisor
                   ELSE ethash_params.difficulty_increment_divisor
               threshold == IF eip100b /\ uncled THEN 2 ELSE 1
               diff_inc  == (header.timestamp - parent.timestamp) \div increment_divisor
               step == parent.difficulty \div BoundDivisor(ethash_params, header.number)
               pre  == PreClampTarget(ethash_params, overflow_checks, header, parent)
           IN  ~pre.trap =>
                 pre.v = IF diff_inc <= threshold
                         THEN parent.difficulty + step * (threshold - diff_inc)
                         ELSE Max(0, parent.difficulty
                                     - step * Min(diff_inc - threshold, 99))

\* after EIP100b a header 12 seconds after a parent with uncles has been given
\* a target above the parent's difficulty
C11_Witness ==
    \E t \in Threads :
        /\ HomesteadCall(t)
        /\ thread[t].args.header.number >= ethash_params.eip100b_transition
        /\ thread[t].args.parent.uncles_hash # KECCAK_EMPTY_LIST_RLP
        /\ thread[t].args.header.timestamp = thread[t].args.parent.timestamp + 12
        /\ thread[t].ret.tag = "Value"
        /\ thread[t].ret.v > thread[t].args.parent.difficulty

\* a call of calculate_difficulty has returned a value
Calculated(t) ==
    /\ Finished(t, "calculate_difficulty")
    /\ thread[t].ret.tag = "Value"

\* the target of a returned call after the clamp of line 298
ClampedTarget(t) ==
    ClampToMinimum(ethash_params.minimum_difficulty,
                   PreClampTarget(ethash_params, overflow_checks,
                                  thread[t].args.header, thread[t].args.parent).v)

\* the period of a header in the un-paused bomb branch
BombPeriod(t) ==
    BombDelayed(ethash_params.difficulty_bomb_delays,
                thread[t].args.header.number,
                thread[t].args.header.number) \div EXP_DIFF_PERIOD

\* C12: with the bomb never defused and ECIP1010 never paused the bomb term
\* depends only on period = adjusted number / 100000: for period <= 1 nothing
\* is added and the result is the clamped target, for period > 1 exactly
\* 2^(period - 2) is added; from bomb_defuse_transition on nothing is added
\* for any period.
C12_BombTerm ==
    \A t \in Threads :
        Calculated(t)
        => /\ ( /\ ethash_params.bomb_defuse_transition = U64Max
                /\ ethash_params.ecip1010_pause_transition = U64Max
                /\ thread[t].args.header.number < U64Max )
              => thread[t].ret.v =
                     IF BombPeriod(t) <= 1
                     THEN ClampedTarget(t)
                     ELSE ClampedTarget(t) + 2^(BombPeriod(t) - 2)
           /\ thread[t].args.header.number >= ethash_params.bomb_defuse_transition
              => thread[t].ret.v = ClampedTarget(t)

\* the sum of the delays of the entries of a table whose threshold is at or
\* below a block number
RECURSIVE QualifyingDelays(_, _)
QualifyingDelays(delays, number) ==
    IF delays = <<>> THEN 0
    ELSE (IF Head(delays)[1] <= number THEN Head(delays)[2] ELSE 0)
         + QualifyingDelays(Tail(delays), number)

\* a call of calculate_difficulty that went through the un-paused bomb branch
\* has returned a value
UnpausedCall(t) ==
    /\ Calculated(t)
    /\ thread[t].args.header.number < ethash_params.bomb_defuse_transition
    /\ thread[t].args.header.number < ethash_params.ecip1010_pause_transition

\* C13: in the un-paused bomb branch the adjusted number is header.number
\* minus the delays of all entries of difficulty_bomb_delays whose threshold
\* is <= the original header.number, not below zero: entries above the header
\* number contribute nothing, all others add up.
C13_BombDelays ==
    \A t \in Threads :
        UnpausedCall(t)
        => LET number == thread[t].args.header.number
               delays == ethash_params.difficulty_bomb_delays
           IN  BombDelayed(delays, number, number)
                   = Max(0, number - QualifyingDelays(delays, number))

\* a header above both thresholds of a table has been lowered by both delays,
\* the first of which took it below the second threshold
C13_Witness ==
    \E t \in Threads :
        /\ UnpausedCall(t)
        /\ ethash_params.difficulty_bomb_delays
               = << <<200000, 100000>>, <<300000, 150000>> >>
        /\ thread[t].args.header.number = 350000
        /\ BombPeriod(t) = 1

\* every header of the chain but the first passes verify_block_family against
\* the header below it
FamilyValid ==
    \A i \in 2 .. Len(chain) :
        VerifyBlockFamily(ethash_params, overflow_checks, chain[i], chain[i - 1]) = Ok

\* C14: in a chain in which every header but the first passes
\* verify_block_family against its predecessor, every header but the first
\* has a difficulty of at least minimum_difficulty, and verify_block_basic
\* never rejects such a header with DifficultyOutOfBounds.
C14_FamilyValidAboveMinimum ==
    FamilyValid
    => /\ \A i \in 2 .. Len(chain) :
              chain[i].difficulty >= ethash_params.minimum_difficulty
       /\ \A t \in Threads :
              ( /\ Finished(t, "verify_block_basic")
                /\ \E i \in 2 .. Len(chain) : thread[t].args.header = chain[i] )
              => thread[t].ret.tag # "DifficultyOutOfBounds"

\* verify_block_basic has returned on a header that was accepted on top of a
\* header with a difficulty below the minimum
C14_Witness ==
    /\ Len(chain) >= 2
    /\ FamilyValid
    /\ chain[Len(chain) - 1].difficulty < ethash_params.minimum_difficulty
    /\ Finished(1, "verify_block_basic")
    /\ thread[1].args.header = chain[Len(chain)]
    /\ thread[1].ret.tag \in {"Ok", "InvalidProofOfWork"}

\* the outcome of calculate_difficulty on the header of thread t's call with
\* another timestamp
AtTimestamp(t, timestamp) ==
    CalculateDifficulty(ethash_params, overflow_checks,
                        [thread[t].args.header EXCEPT !.timestamp = timestamp],
                        thread[t].args.parent)

\* the timestamps from the parent's up to the header's
EarlierTimestamps(t) ==
    { t1 \in Timestamps(thread[t].args.parent.timestamp) :
          /\ thread[t].args.parent.timestamp <= t1
          /\ t1 <= thread[t].args.header.timestamp }

\* C15: calculate_difficulty does not grow with the header's timestamp: for
\* the same parent, number and parameters and timestamps t1 <= t2, both at or
\* after the parent's, the difficulty at t2 is at most the difficulty at t1,
\* before and after Homestead, with the bomb and without.
C15_MonotoneInTimestamp ==
    \A t \in Threads :
        Calculated(t)
        => \A t1 \in EarlierTimestamps(t) :
               ~AtTimestamp(t, t1).trap => thread[t].ret.v <= AtTimestamp(t, t1).v

\* a later header has been given a strictly lower difficulty than an earlier
\* one would get
C15_Witness ==
    \E t \in Threads :
        /\ Calculated(t)
        /\ \E t1 \in EarlierTimestamps(t) :
               /\ ~AtTimestamp(t, t1).trap
               /\ thread[t].ret.v < AtTimestamp(t, t1).v

====
